---- MODULE Spec2Model ----
(***************************************************************************)
(* Event ingestion of the invoice service: the five Dapr topic handlers of *)
(* event/http_event_service.rs, the MongoDB operations they issue, and the *)
(* invoice pipeline of graphql/model/invoice.rs.                           *)
(*                                                                         *)
(* A BSON document is a function from field names to values, so that a     *)
(* field that was never written is absent from the document's DOMAIN and   *)
(* decoding a document into a Rust struct can fail on a missing field.     *)
(* A collection is the sequence of its documents in natural (insertion)    *)
(* order; find_one returns the first match, update_one changes the first   *)
(* match, and the server keeps the _id of a collection unique.             *)
(***************************************************************************)
EXTENDS Integers, Sequences, FiniteSets, TLC

VARIABLES
    invoice_collection,         \* Collection<Invoice>        "invoices"
    vendor_address_collection,  \* Collection<VendorAddress>  "vendor_address"
    user_collection,            \* Collection<User>           "user"
    published,                  \* requests the publish endpoint has answered
    last,                       \* the event logged by the last handler and its reply
    synthesized,                \* the last run of Invoice::new on its own: inputs and invoice
    request                     \* the validation request between two of its awaits

vars ==
    <<invoice_collection, vendor_address_collection, user_collection, published, last,
      synthesized, request>>

-----------------------------------------------------------------------------
(* Bounds of the model.                                                    *)

\* Largest number of embedded addresses the user collection is driven to.
MaxAddresses == 2

\* Number of invoice ids Uuid::new() draws from.
MaxInvoices == 2

\* Largest clock reading of DateTime::now(), in ticks.
MaxTime == 1

\* Clock ticks per second: the rendered time stamp drops what is below a second.
TicksPerSecond == 2

-----------------------------------------------------------------------------
(* Values events are drawn from.                                           *)

None == "None"

\* The data of an envelope whose data no handler looked at.
NoData == [none |-> TRUE]

UserIds == {"u1", "u2"}
AddressIds == {"a1", "a2"}
VendorIds == {"v1", "v2"}
OrderIds == {"o1"}
ItemIds == {"i1", "i2"}
InvoiceIds == 1..MaxInvoices
Times == 0..MaxTime

\* TopicEventResponse::default(): status 0 is Ok for Dapr.
StatusOk == 0

\* StatusCode::INTERNAL_SERVER_ERROR, the only error reply of the handlers.
INTERNAL_SERVER_ERROR == 500

\* The reply of the Json extractor to a body it cannot decode into Event<T>;
\* the handler is not called.
UNPROCESSABLE_ENTITY == 422

TopicValidationSucceeded == "discount/order/validation-succeeded"
TopicVendorAddressCreated == "address/vendor-address/created"
TopicUserCreated == "user/user/created"
TopicUserAddressCreated == "address/user-address/created"
TopicUserAddressArchived == "address/user-address/archived"

Topics ==
    {TopicValidationSucceeded, TopicVendorAddressCreated, TopicUserCreated,
     TopicUserAddressCreated, TopicUserAddressArchived}

RouteValidationSucceeded == "/on-discount-validation-succeded"
RouteVendorAddressCreated == "/on-vendor-address-creation-event"
RouteUserCreated == "/on-user-creation-event"
RouteUserAddressCreated == "/on-user-address-creation-event"
RouteUserAddressArchived == "/on-user-address-archived-event"

VendorAddressEventData ==
    [id : VendorIds, street1 : {"Main St"}, street2 : {"-"}, city : {"Town"},
     postal_code : {"1000"}, country : {"DE"}, company_name : {"Acme", "Bolt"}]

UserEventData ==
    [id : UserIds, first_name : {"Ann"}, last_name : {"Lee"}]

UserAddressEventData ==
    [id : AddressIds, street1 : {"Side St"}, street2 : {"-"}, city : {"City"},
     postal_code : {"2000"}, country : {"DE"}, company_name : {None},
     user_id : UserIds]

UserAddressArchivedEventData == [id : AddressIds, user_id : UserIds]

OrderItemEventData ==
    [id : ItemIds, product_variant_id : {"p1"}, count : {2},
     compensatable_amount : {2000}]

OrderItemLists == {<<i>> : i \in {j \in OrderItemEventData : j.id = "i1"}}

OrderEventData ==
    [id : OrderIds, user_id : UserIds, created_at : {0}, order_status : {"Placed"},
     placed_at : {0}, rejection_reason : {None}, order_items : OrderItemLists,
     shipment_address_id : {"a1"}, invoice_address_id : AddressIds,
     compensatable_order_amount : {5000}, payment_information_id : {"pi1"},
     payment_authorization : {None}, vat_number : {None}]

DiscountValidationSucceededEventData == [order : OrderEventData]

-----------------------------------------------------------------------------
(* Documents and decoding.                                                 *)

UserFields == {"_id", "first_name", "last_name", "addresses"}

UserAddressFields ==
    {"_id", "street1", "street2", "city", "postal_code", "country",
     "company_name", "user_id"}

VendorAddressFields ==
    {"_id", "street1", "street2", "city", "postal_code", "country", "company_name"}

Ok(v) == [ok |-> TRUE, value |-> v]
Err == [ok |-> FALSE]

\* The document restricted to the fields in fs that it has.
Project(doc, fs) == [f \in (DOMAIN doc) \cap fs |-> doc[f]]

\* The document with field f set to v, created when absent.
SetField(doc, f, v) == [g \in (DOMAIN doc) \cup {f} |-> IF g = f THEN v ELSE doc[g]]

\* serde's derived Deserialize: every field of the struct is required (none has
\* a default), fields the struct does not declare are ignored.
Decode(doc, fields) ==
    IF fields \subseteq DOMAIN doc THEN Ok(Project(doc, fields)) ELSE Err

\* Index of the first document of a collection that matches a filter, 0 when
\* there is none; matches[i] tells whether the i-th document matches.
FirstIndex(matches) ==
    IF \E i \in DOMAIN matches : matches[i]
    THEN CHOOSE i \in DOMAIN matches :
            matches[i] /\ \A j \in 1..(i - 1) : ~matches[j]
    ELSE 0

\* insert_one: the server rejects a document whose _id is already in the collection.
InsertOne(coll, doc) ==
    IF \E i \in 1..Len(coll) : coll[i]._id = doc._id
    THEN Err
    ELSE Ok(Append(coll, doc))

-----------------------------------------------------------------------------
(* JSON bodies and the Json<Event<T>> extractor.  A JSON object is a       *)
(* function from its keys to values; a struct is decoded field by field    *)
(* from the key serde derives for the field (the field's name, or its      *)
(* camelCase form under rename_all).  A key the object lacks decodes to    *)
(* None for an Option field and fails the decoding for any other field.    *)

VendorAddressKeys ==
    [id |-> "id", street1 |-> "street1", street2 |-> "street2", city |-> "city",
     postal_code |-> "postal_code", country |-> "country",
     company_name |-> "company_name"]

UserKeys == [id |-> "id", first_name |-> "first_name", last_name |-> "last_name"]

UserAddressKeys ==
    [id |-> "id", street1 |-> "street1", street2 |-> "street2", city |-> "city",
     postal_code |-> "postalCode", country |-> "country",
     company_name |-> "companyName", user_id |-> "userId"]

UserAddressOptional == {"company_name"}

UserAddressArchivedKeys == [id |-> "id", user_id |-> "userId"]

OrderKeys ==
    [id |-> "id", user_id |-> "userId", created_at |-> "createdAt",
     order_status |-> "orderStatus", placed_at |-> "placedAt",
     rejection_reason |-> "rejectionReason", order_items |-> "orderItems",
     shipment_address_id |-> "shipmentAddressId",
     invoice_address_id |-> "invoiceAddressId",
     compensatable_order_amount |-> "compensatableOrderAmount",
     payment_information_id |-> "paymentInformationId",
     payment_authorization |-> "paymentAuthorization",
     vat_number |-> "vatNumber"]

\* The fields of OrderEventData declared Option<_>.
OrderOptional == {"rejection_reason", "payment_authorization", "vat_number"}

OrderItemKeys ==
    [id |-> "id", product_variant_id |-> "productVariantId", count |-> "count",
     compensatable_amount |-> "compensatableAmount"]

DiscountValidationSucceededKeys == [order |-> "order"]

\* The JSON object a sender writes for a value: each field under its key.
Encode(value, keys) ==
    [k \in {keys[f] : f \in DOMAIN value} |->
        value[CHOOSE f \in DOMAIN value : keys[f] = k]]

\* The JSON object without the keys in ks.
Dropped(payload, ks) == [k \in (DOMAIN payload) \ ks |-> payload[k]]

\* serde's derived Deserialize for a struct with the given keys.
ExtractJson(payload, keys, optional) ==
    IF \A f \in (DOMAIN keys) \ optional : keys[f] \in DOMAIN payload
    THEN Ok([f \in DOMAIN keys |->
                IF keys[f] \in DOMAIN payload THEN payload[keys[f]] ELSE None])
    ELSE Err

EncodeOrder(order) ==
    Encode([order EXCEPT !.order_items =
                [i \in DOMAIN @ |-> Encode(@[i], OrderItemKeys)]], OrderKeys)

\* Deserialize for OrderEventData: the order and each of its items.
ExtractItems(order) ==
    IF \A i \in DOMAIN order.order_items :
            ExtractJson(order.order_items[i], OrderItemKeys, {}).ok
    THEN Ok([order EXCEPT !.order_items =
                [i \in DOMAIN @ |-> ExtractJson(@[i], OrderItemKeys, {}).value]])
    ELSE Err

ExtractOrder(payload) ==
    LET order == ExtractJson(payload, OrderKeys, OrderOptional)
    IN  IF ~order.ok THEN Err ELSE ExtractItems(order.value)

\* Deserialize for DiscountValidationSucceededEventData.
ExtractOrderOf(data) == IF ~data.ok THEN Err ELSE ExtractOrder(data.value.order)

ExtractValidation(payload) ==
    LET order == ExtractOrderOf(ExtractJson(payload, DiscountValidationSucceededKeys, {}))
    IN  IF ~order.ok THEN Err ELSE Ok([order |-> order.value])

\* The bodies the broker delivers for a topic: every event in full and one
\* sample event without a key its struct requires.
VendorAddressSample ==
    Encode(CHOOSE e \in VendorAddressEventData : e.id = "v1" /\ e.company_name = "Acme",
           VendorAddressKeys)

VendorAddressMalformed == {Dropped(VendorAddressSample, {"company_name"})}

VendorAddressPayloads ==
    {Encode(d, VendorAddressKeys) : d \in VendorAddressEventData}
    \cup VendorAddressMalformed

UserSample == Encode(CHOOSE e \in UserEventData : e.id = "u1", UserKeys)

UserMalformed == {Dropped(UserSample, {"last_name"})}

UserPayloads == {Encode(d, UserKeys) : d \in UserEventData} \cup UserMalformed

UserAddressSample ==
    Encode(CHOOSE e \in UserAddressEventData : e.id = "a1" /\ e.user_id = "u1",
           UserAddressKeys)

UserAddressMalformed == {Dropped(UserAddressSample, {"userId"})}

UserAddressPayloads ==
    {Encode(d, UserAddressKeys) : d \in UserAddressEventData}
    \cup {Dropped(UserAddressSample, {"companyName"})}
    \cup UserAddressMalformed

UserAddressArchivedSample ==
    Encode(CHOOSE e \in UserAddressArchivedEventData : e.id = "a1" /\ e.user_id = "u1",
           UserAddressArchivedKeys)

UserAddressArchivedMalformed == {Dropped(UserAddressArchivedSample, {"userId"})}

UserAddressArchivedPayloads ==
    {Encode(d, UserAddressArchivedKeys) : d \in UserAddressArchivedEventData}
    \cup UserAddressArchivedMalformed

OrderSample ==
    EncodeOrder(CHOOSE e \in OrderEventData :
                    e.user_id = "u1" /\ e.invoice_address_id = "a1")

OrderMalformed == {Dropped(OrderSample, {"userId"})}

OrderPayloads == {EncodeOrder(o) : o \in OrderEventData} \cup OrderMalformed

DiscountValidationSucceededPayloads == {[order |-> p] : p \in OrderPayloads}

DiscountValidationSucceededForeign ==
    {[order |-> p] : p \in {OrderSample} \cup OrderMalformed}

\* The keys of an order the data model calls optional, and two it requires.
DroppableOrderKeys == {"vatNumber", "rejectionReason", "paymentAuthorization", "placedAt"}

RequiredOrderKeys == {"userId", "orderItems"}

\* Validation bodies in which any of these keys may be left out.
SparseValidationPayloads ==
    {[order |-> Dropped(EncodeOrder(o), ks)] :
        o \in OrderEventData, ks \in SUBSET (DroppableOrderKeys \cup RequiredOrderKeys)}

\* The bodies that reach a handler under a topic: every body of the handler's
\* own topic, and under a foreign topic the given ones.
Delivered(topic, literal, payloads, foreign) ==
    IF topic = literal THEN payloads ELSE foreign

-----------------------------------------------------------------------------
(* foreign_types.rs                                                        *)

UserFrom(value) ==
    [_id |-> value.id, first_name |-> value.first_name,
     last_name |-> value.last_name, addresses |-> <<>>]

UserAddressFrom(value) ==
    [_id |-> value.id, street1 |-> value.street1, street2 |-> value.street2,
     city |-> value.city, postal_code |-> value.postal_code,
     country |-> value.country, company_name |-> value.company_name,
     user_id |-> value.user_id]

VendorAddressFrom(value) ==
    [_id |-> value.id, street1 |-> value.street1, street2 |-> value.street2,
     city |-> value.city, postal_code |-> value.postal_code,
     country |-> value.country, company_name |-> value.company_name]

-----------------------------------------------------------------------------
(* Store operations of event/http_event_service.rs.  `up` is FALSE when    *)
(* the store does not answer the call (the Err(_) arm of the match).       *)

\* update_one({_id: id}, {$set: {_id: id}}, upsert): the filter is the id of
\* the event and the $set names no field but _id.  A matching document is left
\* as it is, otherwise the upsert inserts the document {_id: id}.
create_or_update_vendor_address_in_mongodb(collection, vendor_address, up) ==
    IF ~up THEN Err
    ELSE LET i == FirstIndex([k \in DOMAIN collection |-> collection[k]._id = vendor_address._id])
         IN  IF i # 0
             THEN Ok([collection EXCEPT ![i] = SetField(@, "_id", vendor_address._id)])
             ELSE Ok(Append(collection, [_id |-> vendor_address._id]))

\* The update with $addToSet semantics by address id: an id the array already
\* holds is not appended again.
insert_user_address_once(collection, user_address, up) ==
    IF ~up THEN Err
    ELSE LET i == FirstIndex([k \in DOMAIN collection |-> collection[k]._id = user_address.user_id])
         IN  IF i = 0 THEN Ok(collection)
             ELSE LET old == IF "user_addresses" \in DOMAIN collection[i]
                             THEN collection[i].user_addresses ELSE <<>>
                  IN  IF \E k \in 1..Len(old) : old[k]._id = user_address._id
                      THEN Ok(collection)
                      ELSE Ok([collection EXCEPT
                                 ![i] = SetField(@, "user_addresses",
                                                 Append(old, user_address))])

\* An update with upsert: a user that is not stored is created with the
\* address.
insert_user_address_upserting(collection, user_address, up) ==
    IF ~up THEN Err
    ELSE LET i == FirstIndex([k \in DOMAIN collection |-> collection[k]._id = user_address.user_id])
         IN  IF i = 0
             THEN Ok(Append(collection, [_id |-> user_address.user_id,
                                         user_addresses |-> <<user_address>>]))
             ELSE LET old == IF "user_addresses" \in DOMAIN collection[i]
                             THEN collection[i].user_addresses ELSE <<>>
                  IN  Ok([collection EXCEPT
                            ![i] = SetField(@, "user_addresses", Append(old, user_address))])

\* An update that also $sets the last name of the user to the company of the
\* address.
insert_user_address_renaming(collection, user_address, up) ==
    IF ~up THEN Err
    ELSE LET i == FirstIndex([k \in DOMAIN collection |-> collection[k]._id = user_address.user_id])
         IN  IF i = 0 THEN Ok(collection)
             ELSE LET old == IF "user_addresses" \in DOMAIN collection[i]
                             THEN collection[i].user_addresses ELSE <<>>
                  IN  Ok([collection EXCEPT
                            ![i] = SetField(SetField(@, "user_addresses",
                                                     Append(old, user_address)),
                                            "last_name", user_address.company_name)])

\* update_one({_id: user_id}, {$push: {user_addresses: address}}): appends to
\* the array field `user_addresses` of the first matching user, creating the
\* field when the document has none; no user matching is not an error.
insert_user_address_in_mongodb(collection, user_address, up) ==
    IF ~up THEN Err
    ELSE LET i == FirstIndex([k \in DOMAIN collection |-> collection[k]._id = user_address.user_id])
         IN  IF i = 0 THEN Ok(collection)
             ELSE LET old == IF "user_addresses" \in DOMAIN collection[i]
                             THEN collection[i].user_addresses ELSE <<>>
                  IN  Ok([collection EXCEPT
                            ![i] = SetField(@, "user_addresses", Append(old, user_address))])

\* update_one({_id: user_id}, {$pull: {"user_addresses._id": id}}): the path
\* of the $pull is `user_addresses._id`, not the array `user_addresses` with
\* the condition {_id: id}.  Without a `user_addresses` field the path does not
\* exist and the update is a no-op; with one, the path runs through an array by
\* a field name, which the server refuses (PathNotViable) or, when `lenient`,
\* ignores.  No element is removed in either case.
remove_user_address_in_mongodb(collection, user_address_event_data, up, lenient) ==
    IF ~up THEN Err
    ELSE LET i == FirstIndex([k \in DOMAIN collection |-> collection[k]._id = user_address_event_data.user_id])
         IN  IF i = 0 THEN Ok(collection)
             ELSE IF "user_addresses" \notin DOMAIN collection[i] THEN Ok(collection)
             ELSE IF lenient THEN Ok(collection)
             ELSE Err

\* The insert of a user whose id is not stored as the document's _id: the
\* store has nothing to reject.
add_user_without_unique_id(user_event_data, collection, up) ==
    IF ~up THEN Err ELSE Ok(Append(collection, UserFrom(user_event_data)))

\* insert_one(User::from(event)).
add_user_to_mongodb(user_event_data, collection, up) ==
    IF ~up THEN Err ELSE InsertOne(collection, UserFrom(user_event_data))

\* insert_one(invoice).
insert_invoice_in_mongodb(collection, invoice, up) ==
    IF ~up THEN Err ELSE InsertOne(collection, invoice)

-----------------------------------------------------------------------------
(* Lookups of graphql/model/invoice.rs and graphql/query.rs.               *)

HasAddress(doc, address_id) ==
    /\ "addresses" \in DOMAIN doc
    /\ \E k \in 1..Len(doc.addresses) : doc.addresses[k]._id = address_id

\* A lookup in the array the address events write to, which returns the whole
\* user with the first matching address.
query_pushed_address_user(collection, address_id, up) ==
    IF ~up THEN Err
    ELSE LET i == FirstIndex([k \in DOMAIN collection |->
                                /\ "user_addresses" \in DOMAIN collection[k]
                                /\ \E j \in 1..Len(collection[k].user_addresses) :
                                        collection[k].user_addresses[j]._id = address_id])
         IN  IF i = 0 THEN Err
             ELSE Decode(SetField(collection[i], "addresses",
                                  SelectSeq(collection[i].user_addresses,
                                            LAMBDA a : a._id = address_id)),
                         UserFields)

\* find_one({addresses: {$elemMatch: {_id: id}}}, projection {"addresses.$": 1,
\* _id: 1}) decoded as User: the projected document holds _id and the first
\* matching element of `addresses` only.
query_user_address_user(collection, address_id, up) ==
    IF ~up THEN Err
    ELSE LET i == FirstIndex([k \in DOMAIN collection |-> HasAddress(collection[k], address_id)])
         IN  IF i = 0 THEN Err
             ELSE LET doc == collection[i]
                      k == CHOOSE k \in 1..Len(doc.addresses) :
                              /\ doc.addresses[k]._id = address_id
                              /\ \A j \in 1..(k - 1) : doc.addresses[j]._id # address_id
                  IN  Decode([_id |-> doc._id, addresses |-> <<doc.addresses[k]>>],
                             UserFields)

project_user_to_user_address(user) ==
    IF Len(user.addresses) = 0 THEN Err ELSE Ok(user.addresses[1])

\* find_one(None, None) decoded as VendorAddress: the first document.
query_vendor_address(collection, up) ==
    IF ~up THEN Err
    ELSE IF Len(collection) = 0 THEN Err
    ELSE Decode(collection[1], VendorAddressFields)

\* find_one({_id: id}) decoded as User.
query_object(collection, id, up) ==
    IF ~up THEN Err
    ELSE LET i == FirstIndex([k \in DOMAIN collection |-> collection[k]._id = id])
         IN  IF i = 0 THEN Err ELSE Decode(collection[i], UserFields)

-----------------------------------------------------------------------------
(* Invoice synthesis, graphql/model/invoice.rs.  The rendered content is   *)
(* the sequence of the pieces the format string puts together.             *)

INVOICE_TERMS ==
    "This invoice is created according the the companies terms and conditions specified on the website."

\* issued_at.to_chrono().format("%Y-%m-%d %H:%M:%S"): whole seconds.
FormatIssuedAt(issued_at) == [seconds |-> issued_at \div TicksPerSecond]

RECURSIVE OrderItemRows(_)
OrderItemRows(items) ==
    IF items = <<>> THEN <<>>
    ELSE <<<<Head(items).id, Head(items).product_variant_id, Head(items).count,
             Head(items).compensatable_amount>>>> \o OrderItemRows(Tail(items))

\* A table with the rows of the items from the last to the first.
build_order_item_invoice_content_reversed(value) ==
    <<"| Item UUID | Product variant UUID | count | Compensatable amount |",
      "| --- | --- | --- | --- |">>
    \o OrderItemRows([k \in 1..Len(value.order_items) |->
                        value.order_items[Len(value.order_items) + 1 - k]])

build_order_item_invoice_content(value) ==
    <<"| Item UUID | Product variant UUID | count | Compensatable amount |",
      "| --- | --- | --- | --- |">> \o OrderItemRows(value.order_items)

\* The stages at which the environment can fail a validation request.
Faults ==
    {"none", "find_address", "find_vendor", "find_user", "insert",
     "publish_no_response", "publish_error_status"}

\* The tuple invoice_attribute_setup returns once its three lookups succeeded.
SetupTuple(order_event_data, now, user_address, vendor_address, user) ==
    [issued_at |-> now,
     issued_at_string |-> FormatIssuedAt(now),
     order_item_invoice_overview |-> build_order_item_invoice_content(order_event_data),
     user_address |-> user_address,
     vendor_address |-> vendor_address,
     user |-> user]

\* Each `?` returns the error of the lookup it follows; the next lookup is
\* issued only after it.
SetupAfterVendor(order_event_data, now, users, fault, user_address, vendor_address) ==
    IF ~vendor_address.ok THEN Err
    ELSE LET user == query_object(users, order_event_data.user_id, fault # "find_user")
         IN  IF ~user.ok THEN Err
             ELSE Ok(SetupTuple(order_event_data, now, user_address.value,
                                vendor_address.value, user.value))

SetupAfterProjection(order_event_data, now, users, vendors, fault, user_address) ==
    IF ~user_address.ok THEN Err
    ELSE SetupAfterVendor(order_event_data, now, users, fault, user_address,
                          query_vendor_address(vendors, fault # "find_vendor"))

SetupAfterAddress(order_event_data, now, users, vendors, fault, user_address_user) ==
    IF ~user_address_user.ok THEN Err
    ELSE SetupAfterProjection(order_event_data, now, users, vendors, fault,
                              project_user_to_user_address(user_address_user.value))

invoice_attribute_setup(order_event_data, now, users, vendors, fault) ==
    SetupAfterAddress(order_event_data, now, users, vendors, fault,
                      query_user_address_user(users, order_event_data.invoice_address_id,
                                              fault # "find_address"))

\* The format! call and the Invoice literal of Invoice::new, given what
\* invoice_attribute_setup returned.
Synthesize(order_event_data, uuid, a) ==
    [_id |-> uuid,
     order_id |-> order_event_data.id,
     issued_at |-> a.issued_at,
     content |->
        <<"# Invoice", "### Company information:",
          a.vendor_address.company_name,
          a.vendor_address.street1, a.vendor_address.street2,
          a.vendor_address.city, a.vendor_address.country,
          "VAT number:",
          IF order_event_data.vat_number = None THEN "-" ELSE order_event_data.vat_number,
          "### Customer information:",
          "ID:", a.user._id,
          "Name:", a.user.first_name, a.user.last_name,
          "Address:", a.user_address.company_name,
          a.user_address.street1, a.user_address.street2,
          a.user_address.city, a.user_address.country,
          "### Invoice ID:", uuid, "issued at:", a.issued_at_string,
          "Terms and conditions:", INVOICE_TERMS, "---",
          "Purchased items overview:">>
        \o a.order_item_invoice_overview
        \o <<"---", "Total compensatable amount:",
             order_event_data.compensatable_order_amount>>,
     user_address |-> a.user_address,
     vendor_address |-> a.vendor_address,
     vat_number |-> order_event_data.vat_number]

InvoiceNew(order_event_data, uuid, now, users, vendors, fault) ==
    LET setup == invoice_attribute_setup(order_event_data, now, users, vendors, fault)
    IN  IF ~setup.ok THEN Err ELSE Ok(Synthesize(order_event_data, uuid, setup.value))

\* A DTO that carries the whole invoice.
InvoiceDTOWithAddresses(value) == value

\* InvoiceDTO::from(invoice)
InvoiceDTOFrom(value) ==
    [order_id |-> value.order_id, issued_at |-> value.issued_at, content |-> value.content]

\* InvoiceCreatedDTO::from((order, invoice_dto))
InvoiceCreatedDTOFrom(order, invoice) == [order |-> order, invoice |-> invoice]

\* A send() followed by error_for_status(): a response with an error status
\* is a failure.
send_checking_status(fault) ==
    IF fault \in {"publish_no_response", "publish_error_status"} THEN Err ELSE Ok(TRUE)

\* reqwest's send(): Ok(_) for every response of the publish endpoint, whatever
\* its status; Err(_) only when no response was obtained.
send_invoice_created_event(fault) ==
    IF fault = "publish_no_response" THEN Err ELSE Ok(fault # "publish_error_status")

-----------------------------------------------------------------------------
(* The handlers, event/http_event_service.rs.  Each receives a decoded     *)
(* envelope {topic, data} on its route and replies.  An envelope of        *)
(* another topic is rejected before its data is looked at, so `last`       *)
(* records no data for it.                                                 *)

\* A handler whose wildcard arm comes first: every topic is taken for its own.
TopicMatchesAny(topic, literal) == TRUE

\* match event.topic.as_str() { "<literal>" => ..., _ => Err(500) }
TopicMatches(topic, literal) == topic = literal

\* What the store can do to a handler that issues one call.
StoreFaults == {"none", "store"}

\* The envelope a handler received, what the environment did to its calls, its
\* reply, and whether the broker delivered the very same envelope (under the
\* same environment) as the request before.
Logged(route, topic, data, fault, status) ==
    [route |-> route, topic |-> topic, data |-> data, fault |-> fault,
     status |-> status, undecoded |-> NoData,
     redelivered |-> /\ last.route = route /\ last.topic = topic
                     /\ last.data = data /\ last.fault = fault
                     /\ last.undecoded = NoData]

\* An extractor that hands the body it could not decode on to the publish
\* endpoint.
RejectedAfterPublish(route, topic, payload) ==
    /\ last' = [route |-> route, topic |-> topic, data |-> NoData, fault |-> "none",
                status |-> UNPROCESSABLE_ENTITY, undecoded |-> payload,
                redelivered |-> FALSE]
    /\ published' = Append(published, [body |-> payload, accepted |-> TRUE])
    /\ UNCHANGED <<invoice_collection, vendor_address_collection, user_collection>>

\* Json(event): Json<Event<T>> in the handler's signature: a body that does
\* not decode is answered by the extractor and the handler's body never runs.
Rejected(route, topic, payload) ==
    /\ last' = [route |-> route, topic |-> topic, data |-> NoData, fault |-> "none",
                status |-> UNPROCESSABLE_ENTITY, undecoded |-> payload,
                redelivered |-> FALSE]
    /\ UNCHANGED <<invoice_collection, vendor_address_collection, user_collection,
                   published>>

\* A reply that tells a failure of the handler's body by another status.
StatusOfDistinct(result) == IF result.ok THEN StatusOk ELSE INTERNAL_SERVER_ERROR + 3

StatusOf(result) == IF result.ok THEN StatusOk ELSE INTERNAL_SERVER_ERROR

\* Uuid::new(): an id no stored invoice has.
FreshInvoiceIds ==
    {u \in InvoiceIds : \A i \in 1..Len(invoice_collection) : invoice_collection[i]._id # u}

\* Whether the three lookups of invoice_attribute_setup succeed; the id and the
\* time stamp a request draws are observable only then.
LookupsSucceed(order_event_data, fault) ==
    invoice_attribute_setup(order_event_data, 0, user_collection,
                            vendor_address_collection, fault).ok

\* Lines 239-242 of the handler, given the invoice Invoice::new returned: the
\* collections and the reply once the insert and the publish were tried.
Outcome(invoices, publishes, result) ==
    [invoices |-> invoices, published |-> publishes, status |-> StatusOf(result)]

\* A handler that takes the invoice back when the publish call failed.
AfterSendRollback(invoice_created_dto, invoices, sent) ==
    Outcome(IF sent.ok THEN invoices ELSE invoice_collection,
            IF sent.ok
            THEN Append(published, [body |-> invoice_created_dto, accepted |-> sent.value])
            ELSE published,
            sent)

\* A handler that acknowledges whatever the publish call returned.
AfterSendAcknowledged(invoice_created_dto, invoices, sent) ==
    Outcome(invoices,
            IF sent.ok
            THEN Append(published, [body |-> invoice_created_dto, accepted |-> sent.value])
            ELSE published,
            Ok(TRUE))

\* A handler that sends the created-event a second time.
AfterSendTwice(invoice_created_dto, invoices, sent) ==
    Outcome(invoices,
            IF sent.ok
            THEN published \o <<[body |-> invoice_created_dto, accepted |-> sent.value],
                                [body |-> invoice_created_dto, accepted |-> sent.value]>>
            ELSE published,
            sent)

\* The publish endpoint got the request whenever it answered it.
AfterSend(invoice_created_dto, invoices, sent) ==
    Outcome(invoices,
            IF sent.ok
            THEN Append(published, [body |-> invoice_created_dto, accepted |-> sent.value])
            ELSE published,
            sent)

\* A handler that publishes whatever the insert returned.
AfterInsertUnchecked(invoice_created_dto, fault, inserted) ==
    AfterSend(invoice_created_dto,
              IF inserted.ok THEN inserted.value ELSE invoice_collection,
              send_invoice_created_event(fault))

AfterInsert(invoice_created_dto, fault, inserted) ==
    IF ~inserted.ok THEN Outcome(invoice_collection, published, Err)
    ELSE AfterSend(invoice_created_dto, inserted.value, send_invoice_created_event(fault))

\* A handler that publishes the order although Invoice::new failed.
AfterInvoiceNewUnchecked(order, fault, invoice) ==
    IF ~invoice.ok
    THEN Outcome(invoice_collection,
                 Append(published, [body |-> InvoiceCreatedDTOFrom(order, NoData),
                                    accepted |-> TRUE]),
                 Err)
    ELSE AfterInsert(InvoiceCreatedDTOFrom(order, InvoiceDTOFrom(invoice.value)), fault,
                     insert_invoice_in_mongodb(invoice_collection, invoice.value,
                                               fault # "insert"))

AfterInvoiceNew(order, fault, invoice) ==
    IF ~invoice.ok THEN Outcome(invoice_collection, published, Err)
    ELSE AfterInsert(InvoiceCreatedDTOFrom(order, InvoiceDTOFrom(invoice.value)), fault,
                     insert_invoice_in_mongodb(invoice_collection, invoice.value,
                                               fault # "insert"))

\* The state after the validation handler replied.
ValidationReply(topic, data, fault, out) ==
    /\ invoice_collection' = out.invoices
    /\ published' = out.published
    /\ last' = Logged(RouteValidationSucceeded, topic, data, fault, out.status)
    /\ UNCHANGED <<vendor_address_collection, user_collection>>

\* The validation handler over the bodies the broker delivers to its route.
validation_succeeded_event(payloads, foreign) ==
    \E topic \in Topics :
     \E payload \in Delivered(topic, TopicValidationSucceeded, payloads, foreign) :
      LET event == ExtractValidation(payload)
      IN  IF ~event.ok THEN Rejected(RouteValidationSucceeded, topic, payload)
          ELSE IF ~TopicMatches(topic, TopicValidationSucceeded)
          THEN ValidationReply(topic, NoData, "none",
                               Outcome(invoice_collection, published, Err))
          ELSE \E fault \in Faults :
                 \E draw \in (IF LookupsSucceed(event.value.order, fault)
                              THEN FreshInvoiceIds \X Times ELSE {<<0, 0>>}) :
                   ValidationReply(topic, event.value, fault,
                        AfterInvoiceNew(event.value.order, fault,
                                        InvoiceNew(event.value.order, draw[1], draw[2],
                                                   user_collection,
                                                   vendor_address_collection, fault)))

on_discount_order_validation_succeeded_event ==
    validation_succeeded_event(DiscountValidationSucceededPayloads,
                               DiscountValidationSucceededForeign)

\* A vendor handler that also rewrites the vendor address of stored invoices.
VendorReplyRefreshingInvoices(topic, data, fault, result) ==
    /\ vendor_address_collection' =
            IF result.ok THEN result.value ELSE vendor_address_collection
    /\ invoice_collection' =
            IF result.ok
            THEN [i \in DOMAIN invoice_collection |->
                    [invoice_collection[i] EXCEPT !.vendor_address = VendorAddressFrom(data)]]
            ELSE invoice_collection
    /\ last' = Logged(RouteVendorAddressCreated, topic, data, fault, StatusOf(result))
    /\ UNCHANGED <<user_collection, published>>

\* The state after one of the four store handlers replied, given the result of
\* its store call (Err for a topic that is not the handler's).
VendorReply(topic, data, fault, result) ==
    /\ vendor_address_collection' =
            IF result.ok THEN result.value ELSE vendor_address_collection
    /\ last' = Logged(RouteVendorAddressCreated, topic, data, fault, StatusOf(result))
    /\ UNCHANGED <<invoice_collection, user_collection, published>>

on_vendor_address_created_event ==
    \E topic \in Topics :
     \E payload \in Delivered(topic, TopicVendorAddressCreated, VendorAddressPayloads,
                                {VendorAddressSample} \cup VendorAddressMalformed) :
      LET event == ExtractJson(payload, VendorAddressKeys, {})
      IN  IF ~event.ok THEN Rejected(RouteVendorAddressCreated, topic, payload)
          ELSE IF ~TopicMatches(topic, TopicVendorAddressCreated)
          THEN VendorReply(topic, NoData, "none", Err)
          ELSE \E fault \in StoreFaults :
                 VendorReply(topic, event.value, fault,
                    create_or_update_vendor_address_in_mongodb(
                        vendor_address_collection, VendorAddressFrom(event.value),
                        fault # "store"))

\* The embedded addresses a user document holds in the array the address
\* events write to.
PushedAddresses(doc) ==
    IF "user_addresses" \in DOMAIN doc THEN doc.user_addresses ELSE <<>>

RECURSIVE EmbeddedAddresses(_)
EmbeddedAddresses(collection) ==
    IF collection = <<>> THEN 0
    ELSE Len(PushedAddresses(Head(collection))) + EmbeddedAddresses(Tail(collection))

\* A reply of the user handlers that empties the vendor address collection.
UserReplyResettingVendor(route, topic, data, fault, result) ==
    /\ user_collection' = IF result.ok THEN result.value ELSE user_collection
    /\ vendor_address_collection' = <<>>
    /\ last' = Logged(route, topic, data, fault, StatusOf(result))
    /\ UNCHANGED <<invoice_collection, published>>

UserReply(route, topic, data, fault, result) ==
    /\ user_collection' = IF result.ok THEN result.value ELSE user_collection
    /\ last' = Logged(route, topic, data, fault, StatusOf(result))
    /\ UNCHANGED <<invoice_collection, vendor_address_collection, published>>

on_user_address_creation_event ==
    \E topic \in Topics :
     \E payload \in Delivered(topic, TopicUserAddressCreated, UserAddressPayloads,
                                {UserAddressSample} \cup UserAddressMalformed) :
      LET event == ExtractJson(payload, UserAddressKeys, UserAddressOptional)
      IN  /\ EmbeddedAddresses(user_collection) < MaxAddresses
          /\ IF ~event.ok THEN Rejected(RouteUserAddressCreated, topic, payload)
             ELSE IF ~TopicMatches(topic, TopicUserAddressCreated)
             THEN UserReply(RouteUserAddressCreated, topic, NoData, "none", Err)
             ELSE \E fault \in StoreFaults :
                    UserReply(RouteUserAddressCreated, topic, event.value, fault,
                        insert_user_address_in_mongodb(
                            user_collection, UserAddressFrom(event.value),
                            fault # "store"))

on_user_address_archived_event ==
    \E topic \in Topics :
     \E payload \in Delivered(topic, TopicUserAddressArchived,
                                UserAddressArchivedPayloads,
                                {UserAddressArchivedSample}
                                    \cup UserAddressArchivedMalformed) :
      LET event == ExtractJson(payload, UserAddressArchivedKeys, {})
      IN  IF ~event.ok THEN Rejected(RouteUserAddressArchived, topic, payload)
          ELSE IF ~TopicMatches(topic, TopicUserAddressArchived)
          THEN UserReply(RouteUserAddressArchived, topic, NoData, "none", Err)
          ELSE \E fault \in StoreFaults, lenient \in BOOLEAN :
                 UserReply(RouteUserAddressArchived, topic, event.value, fault,
                    remove_user_address_in_mongodb(
                        user_collection, event.value, fault # "store", lenient))

on_user_created_event ==
    \E topic \in Topics :
     \E payload \in Delivered(topic, TopicUserCreated, UserPayloads,
                                {UserSample} \cup UserMalformed) :
      LET event == ExtractJson(payload, UserKeys, {})
      IN  IF ~event.ok THEN Rejected(RouteUserCreated, topic, payload)
          ELSE IF ~TopicMatches(topic, TopicUserCreated)
          THEN UserReply(RouteUserCreated, topic, NoData, "none", Err)
          ELSE \E fault \in StoreFaults :
                 UserReply(RouteUserCreated, topic, event.value, fault,
                    add_user_to_mongodb(event.value, user_collection, fault # "store"))

-----------------------------------------------------------------------------
(* The service starts on an empty database and has handled no event.       *)

Init ==
    /\ invoice_collection = <<>>
    /\ vendor_address_collection = <<>>
    /\ user_collection = <<>>
    /\ published = <<>>
    /\ last = [route |-> None, topic |-> None, data |-> NoData, fault |-> "none",
               status |-> StatusOk, undecoded |-> NoData, redelivered |-> FALSE]
    /\ synthesized = NoData
    /\ request = NoData

Next ==
    \/ on_discount_order_validation_succeeded_event /\ UNCHANGED <<synthesized, request>>
    \/ on_vendor_address_created_event /\ UNCHANGED <<synthesized, request>>
    \/ on_user_address_creation_event /\ UNCHANGED <<synthesized, request>>
    \/ on_user_address_archived_event /\ UNCHANGED <<synthesized, request>>
    \/ on_user_created_event /\ UNCHANGED <<synthesized, request>>

Spec == Init /\ [][Next]_vars

-----------------------------------------------------------------------------
(* The validation handler with the store's answers to the three lookups    *)
(* left to the environment: each lookup either fails or returns a value of *)
(* the type it is decoded into.  What the handler does with the answers:   *)
(* synthesis, insert, publish and reply, is the code of the handler.       *)

LookupFaults == {"find_address", "find_vendor", "find_user"}

\* Values the three lookups can return for an order.
LookupAnswers(order) ==
    [user_address :
        {UserAddressFrom(e) :
            e \in {d \in UserAddressEventData :
                        d.id = order.invoice_address_id /\ d.user_id = order.user_id}},
     vendor_address :
        {VendorAddressFrom(e) :
            e \in {d \in VendorAddressEventData : d.id = "v1" /\ d.company_name = "Acme"}},
     user : {UserFrom(e) : e \in {d \in UserEventData : d.id = order.user_id}}]

RECURSIVE SumOfAmounts(_)
SumOfAmounts(items) ==
    IF items = <<>> THEN 0
    ELSE Head(items).compensatable_amount + SumOfAmounts(Tail(items))

Answered(order_event_data, uuid, now, answers) ==
    Synthesize(order_event_data, uuid,
               SetupTuple(order_event_data, now, answers.user_address,
                          answers.vendor_address, answers.user))

\* An Invoice::new whose footer is the sum of the items' amounts.
InvoiceNewSummingItems(order_event_data, uuid, now, fault, answers) ==
    LET invoice == Answered(order_event_data, uuid, now, answers)
    IN  Ok([invoice EXCEPT
              !.content = [@ EXCEPT ![Len(invoice.content)] =
                                        SumOfAmounts(order_event_data.order_items)]])

\* An Invoice::new that stores the placeholder of the VAT line.
InvoiceNewStoringPlaceholder(order_event_data, uuid, now, fault, answers) ==
    LET invoice == Answered(order_event_data, uuid, now, answers)
    IN  Ok([invoice EXCEPT
              !.vat_number = IF order_event_data.vat_number = None THEN "-"
                             ELSE order_event_data.vat_number])

\* An Invoice::new that numbers its invoices by the runs before it.
InvoiceNewNumbered(order_event_data, uuid, now, fault, answers) ==
    LET invoice == Answered(order_event_data, uuid, now, answers)
    IN  Ok([invoice EXCEPT
              !.content = @ \o <<"No.", IF synthesized = NoData THEN 1
                                        ELSE Len(synthesized.invoice.content)>>])

\* An Invoice::new that prints the payment authorization.
InvoiceNewWithAuthorization(order_event_data, uuid, now, fault, answers) ==
    LET invoice == Answered(order_event_data, uuid, now, answers)
    IN  Ok([invoice EXCEPT
              !.content = @ \o <<"Paid with:", order_event_data.payment_authorization>>])

\* Invoice::new when invoice_attribute_setup got these answers.
InvoiceNewAnswered(order_event_data, uuid, now, fault, answers) ==
    IF fault \in LookupFaults THEN Err
    ELSE Ok(Synthesize(order_event_data, uuid,
                       SetupTuple(order_event_data, now, answers.user_address,
                                  answers.vendor_address, answers.user)))

\* Largest number of invoices the store is driven to while the lookups are
\* answered by the environment.
MaxAnsweredInvoices == 1

on_validation_succeeded_event_answered ==
    \E topic \in Topics :
     \E payload \in DiscountValidationSucceededForeign :
      LET event == ExtractValidation(payload)
      IN  IF ~event.ok THEN Rejected(RouteValidationSucceeded, topic, payload)
          ELSE IF ~TopicMatches(topic, TopicValidationSucceeded)
          THEN ValidationReply(topic, NoData, "none",
                               Outcome(invoice_collection, published, Err))
          ELSE \E fault \in Faults, answers \in LookupAnswers(event.value.order) :
                 \E draw \in (IF fault \in LookupFaults THEN {<<0, 0>>}
                              ELSE FreshInvoiceIds \X Times) :
                   /\ Len(invoice_collection) < MaxAnsweredInvoices
                   /\ ValidationReply(topic, event.value, fault,
                        AfterInvoiceNew(event.value.order, fault,
                                        InvoiceNewAnswered(event.value.order, draw[1],
                                                           draw[2], fault, answers)))

\* The four store handlers are run here on empty user and vendor collections
\* only; Spec runs them on every store they build.
StoreSmall == user_collection = <<>> /\ vendor_address_collection = <<>>

NextAnswered ==
    \/ on_validation_succeeded_event_answered /\ UNCHANGED <<synthesized, request>>
    \/ StoreSmall /\ on_vendor_address_created_event /\ UNCHANGED <<synthesized, request>>
    \/ StoreSmall /\ on_user_address_creation_event /\ UNCHANGED <<synthesized, request>>
    \/ StoreSmall /\ on_user_address_archived_event /\ UNCHANGED <<synthesized, request>>
    \/ StoreSmall /\ on_user_created_event /\ UNCHANGED <<synthesized, request>>

SpecAnswered == Init /\ [][NextAnswered]_vars

-----------------------------------------------------------------------------
(* Discovery and routing.                                                  *)

\* The triples GET /dapr/subscribe returns.
list_topic_subscriptions ==
    {[pubsubname |-> "pubsub", topic |-> "discount/order/validation-succeeded",
      route |-> "/on-discount-validation-succeded"],
     [pubsubname |-> "pubsub", topic |-> "address/vendor-address/created",
      route |-> "/on-vendor-address-creation-event"],
     [pubsubname |-> "pubsub", topic |-> "user/user/created",
      route |-> "/on-id-creation-event"],
     [pubsubname |-> "pubsub", topic |-> "address/user-address/created",
      route |-> "/on-user-address-creation-event"],
     [pubsubname |-> "pubsub", topic |-> "address/user-address/archived",
      route |-> "/on-user-address-archived-event"]}

\* The POST routes of the router, each with the topic its handler accepts.
build_dapr_router ==
    (RouteValidationSucceeded :> TopicValidationSucceeded)
    @@ (RouteVendorAddressCreated :> TopicVendorAddressCreated)
    @@ (RouteUserCreated :> TopicUserCreated)
    @@ (RouteUserAddressCreated :> TopicUserAddressCreated)
    @@ (RouteUserAddressArchived :> TopicUserAddressArchived)

-----------------------------------------------------------------------------
\* The validation route alone, for bodies with keys left out.
NextSparse ==
    /\ validation_succeeded_event(SparseValidationPayloads, DiscountValidationSucceededForeign)
    /\ UNCHANGED <<synthesized, request>>

SpecSparse == Init /\ [][NextSparse]_vars

-----------------------------------------------------------------------------
(* Invoice::new on its own: the function is applied to orders, answers of  *)
(* its three lookups, an id and a clock reading, between requests that     *)
(* change the store.                                                       *)

\* Largest number of items of an order Invoice::new is applied to.
MaxItems == 2

OrderItemListsUpTo(n) == UNION {[1..k -> OrderItemEventData] : k \in 0..n}

\* Option<PaymentAuthorizationEventData>: absent, or CVC(u16).
PaymentAuthorizations == {None, "CVC(123)", "CVC(456)"}

\* Option<String>
VatNumbers == {None, "DE123"}

\* compensatable_order_amount: u64, the sum of two items of the model and
\* another amount.
OrderAmounts == {4000, 5000}

SynthesisOrders ==
    [id : OrderIds, user_id : {"u1"}, created_at : {0}, order_status : {"Placed"},
     placed_at : {0}, rejection_reason : {None},
     order_items : OrderItemListsUpTo(MaxItems),
     shipment_address_id : {"a1"}, invoice_address_id : {"a1"},
     compensatable_order_amount : OrderAmounts, payment_information_id : {"pi1"},
     payment_authorization : PaymentAuthorizations, vat_number : VatNumbers]

\* What a run of Invoice::new is given: the order, what Uuid::new() and
\* DateTime::now() returned, and the answers of the three lookups.
SynthesisInputs(order_event_data, _id, issued_at, answers) ==
    [order_event_data |-> order_event_data, _id |-> _id, issued_at |-> issued_at,
     user_address |-> answers.user_address, vendor_address |-> answers.vendor_address,
     user |-> answers.user]

WithoutAuthorization(inputs) ==
    [inputs EXCEPT !.order_event_data.payment_authorization = None]

\* In what the inputs of a run differ from those of the run before it.
Difference(before, inputs) ==
    IF before = NoData THEN "first"
    ELSE IF before.inputs = inputs THEN "nothing"
    ELSE IF WithoutAuthorization(before.inputs) = WithoutAuthorization(inputs)
    THEN "payment_authorization"
    ELSE "more"

\* Invoice::new(order_event_data, state) with its lookups answered, the id
\* Uuid::new() returned and the reading of DateTime::now().
invoice_new ==
    \E order_event_data \in SynthesisOrders, _id \in InvoiceIds, issued_at \in Times :
     \E answers \in LookupAnswers(order_event_data) :
        /\ synthesized' =
                [inputs |-> SynthesisInputs(order_event_data, _id, issued_at, answers),
                 differs |-> Difference(synthesized,
                                SynthesisInputs(order_event_data, _id, issued_at, answers)),
                 invoice |-> InvoiceNewAnswered(order_event_data, _id, issued_at,
                                                "none", answers).value]
        /\ UNCHANGED <<invoice_collection, vendor_address_collection, user_collection,
                       published, last, request>>

NextSynthesis == invoice_new

SpecSynthesis == Init /\ [][NextSynthesis]_vars

-----------------------------------------------------------------------------
(* The validation request await by await.  Between two awaits of a request *)
(* the other handlers run; each of them awaits one store call.  The three  *)
(* lookups are answered by the environment, as in SpecAnswered.            *)

\* The awaited calls of a validation request, in the order of the code.
StageOrder == <<"find_address", "find_vendor", "find_user", "insert", "publish">>

\* What the environment can do to the call of a stage.
StageFaults(stage) ==
    IF stage = "publish" THEN {"none", "publish_no_response", "publish_error_status"}
    ELSE {"none", stage}

\* The request once the body decoded and the topic matched: Uuid::new() and
\* DateTime::now() were called, no call was awaited yet.
RequestStarted(topic, data, _id, issued_at) ==
    [stage |-> "find_address", topic |-> topic, data |-> data, _id |-> _id,
     issued_at |-> issued_at, issued |-> <<>>, user_address |-> NoData,
     vendor_address |-> NoData, user |-> NoData, overlapped |-> FALSE]

\* The request goes on to its next await with what the call returned.
Continued(req, next, field, value, invoices, publishes) ==
    [request |-> [req EXCEPT !.stage = next, ![field] = value,
                             !.issued = Append(@, req.stage)],
     invoices |-> invoices, published |-> publishes,
     replied |-> FALSE, fault |-> "none", status |-> StatusOk]

\* The request ends with a reply.
Replied(fault, result, invoices, publishes) ==
    [request |-> NoData, invoices |-> invoices, published |-> publishes,
     replied |-> TRUE, fault |-> fault, status |-> StatusOf(result)]

\* A lookup that goes on to the next lookup although it failed.
LookupStageUnchecked(req, fault, next, field, value, invoices, publishes) ==
    Continued(req, next, field, IF fault = req.stage THEN NoData ELSE value,
              invoices, publishes)

\* A request that starts its lookups over when one of them failed.
LookupStageRestarted(req, fault, next, field, value, invoices, publishes) ==
    IF fault = req.stage
    THEN [request |-> [req EXCEPT !.stage = "find_address", !.issued = <<>>,
                                  !.user_address = NoData, !.vendor_address = NoData,
                                  !.user = NoData],
          invoices |-> invoices, published |-> publishes,
          replied |-> FALSE, fault |-> "none", status |-> StatusOk]
    ELSE Continued(req, next, field, value, invoices, publishes)

\* `.await?` of a lookup of invoice_attribute_setup.
LookupStage(req, fault, next, field, value, invoices, publishes) ==
    IF fault = req.stage THEN Replied(fault, Err, invoices, publishes)
    ELSE Continued(req, next, field, value, invoices, publishes)

\* An invoice made with the address of another request.
InvoiceOfRequestMismatched(req) ==
    [Synthesize(req.data.order, req._id,
                SetupTuple(req.data.order, req.issued_at, req.user_address,
                           req.vendor_address, req.user))
        EXCEPT !.user_address._id = "a0"]

\* The invoice Invoice::new returns from what the lookups returned.
InvoiceOfRequest(req) ==
    Synthesize(req.data.order, req._id,
               SetupTuple(req.data.order, req.issued_at, req.user_address,
                          req.vendor_address, req.user))

\* insert_invoice_in_mongodb(&state.invoice_collection, invoice).await?
InsertStage(req, fault, invoices, publishes) ==
    IF ~insert_invoice_in_mongodb(invoices, InvoiceOfRequest(req), fault # "insert").ok
    THEN Replied(fault, Err, invoices, publishes)
    ELSE Continued(req, "publish", "stage", "publish",
                   insert_invoice_in_mongodb(invoices, InvoiceOfRequest(req), TRUE).value,
                   publishes)

\* send_invoice_created_event(invoice_created_dto).await? and the reply.
PublishStage(req, fault, invoices, publishes) ==
    Replied(fault, send_invoice_created_event(fault), invoices,
            IF send_invoice_created_event(fault).ok
            THEN Append(publishes,
                        [body |-> InvoiceCreatedDTOFrom(req.data.order,
                                        InvoiceDTOFrom(InvoiceOfRequest(req))),
                         accepted |-> send_invoice_created_event(fault).value])
            ELSE publishes)

\* One await of the request.
RequestStep(req, fault, answers, invoices, publishes) ==
    IF req.stage = "find_address"
    THEN LookupStage(req, fault, "find_vendor", "user_address", answers.user_address,
                     invoices, publishes)
    ELSE IF req.stage = "find_vendor"
    THEN LookupStage(req, fault, "find_user", "vendor_address", answers.vendor_address,
                     invoices, publishes)
    ELSE IF req.stage = "find_user"
    THEN LookupStage(req, fault, "insert", "user", answers.user, invoices, publishes)
    ELSE IF req.stage = "insert" THEN InsertStage(req, fault, invoices, publishes)
    ELSE PublishStage(req, fault, invoices, publishes)

\* The handler receives a delivery: the extractor decodes the body, the
\* topic is matched, and Invoice::new runs up to its first await.
request_accept ==
    /\ request = NoData
    /\ \E topic \in Topics :
        \E payload \in DiscountValidationSucceededForeign :
         LET event == ExtractValidation(payload)
         IN  IF ~event.ok THEN Rejected(RouteValidationSucceeded, topic, payload)
                               /\ UNCHANGED request
             ELSE IF ~TopicMatches(topic, TopicValidationSucceeded)
             THEN /\ ValidationReply(topic, NoData, "none",
                                     Outcome(invoice_collection, published, Err))
                  /\ UNCHANGED request
             ELSE \E _id \in FreshInvoiceIds, issued_at \in Times :
                    /\ Len(invoice_collection) < MaxAnsweredInvoices
                    /\ request' = RequestStarted(topic, event.value, _id, issued_at)
                    /\ UNCHANGED <<invoice_collection, vendor_address_collection,
                                   user_collection, published, last>>
    /\ UNCHANGED synthesized

\* The call the request awaits returns and the request runs to its next
\* await or to its reply.
request_step ==
    /\ request # NoData
    /\ \E fault \in StageFaults(request.stage) :
        \E answers \in LookupAnswers(request.data.order) :
         LET out == RequestStep(request, fault, answers, invoice_collection, published)
         IN  /\ request' = out.request
             /\ invoice_collection' = out.invoices
             /\ published' = out.published
             /\ last' = IF out.replied
                        THEN Logged(RouteValidationSucceeded, request.topic, request.data,
                                    out.fault, out.status)
                        ELSE last
    /\ UNCHANGED <<vendor_address_collection, user_collection, synthesized>>

\* Another handler ran while the request was between two awaits.
Overlapped ==
    /\ request' = IF request = NoData THEN request
                  ELSE [request EXCEPT !.overlapped = TRUE]
    /\ UNCHANGED synthesized

NextStaged ==
    \/ request_accept
    \/ request_step
    \/ StoreSmall /\ on_vendor_address_created_event /\ Overlapped
    \/ StoreSmall /\ on_user_address_creation_event /\ Overlapped
    \/ StoreSmall /\ on_user_address_archived_event /\ Overlapped
    \/ StoreSmall /\ on_user_created_event /\ Overlapped

SpecStaged == Init /\ [][NextStaged]_vars

\* Every call the request awaits returns, and the runtime polls the request
\* again when it did.
SpecStagedFair == SpecStaged /\ WF_vars(request_step)

-----------------------------------------------------------------------------
(* Properties.                                                             *)

\* The last envelope came on `route` with the topic of that route, its body
\* decoded, and the environment failed none of its calls.
Handled(l, route, topic) ==
    /\ l.route = route
    /\ l.topic = topic
    /\ l.fault = "none"
    /\ l.undecoded = NoData

\* The last envelope carried a topic other than the literal of its handler.
Mismatched(l) ==
    \/ l.route = RouteValidationSucceeded /\ l.topic # TopicValidationSucceeded
    \/ l.route = RouteVendorAddressCreated /\ l.topic # TopicVendorAddressCreated
    \/ l.route = RouteUserCreated /\ l.topic # TopicUserCreated
    \/ l.route = RouteUserAddressCreated /\ l.topic # TopicUserAddressCreated
    \/ l.route = RouteUserAddressArchived /\ l.topic # TopicUserAddressArchived

\* All embedded addresses of a user document.
AddressCollection(doc) == doc.addresses \o PushedAddresses(doc)

EntriesWithId(addresses, id) == {k \in 1..Len(addresses) : addresses[k]._id = id}

Owns(doc, address_id) == EntriesWithId(AddressCollection(doc), address_id) # {}

UsersWithId(id) == {i \in 1..Len(user_collection) : user_collection[i]._id = id}

InvoicesOf(order_id) ==
    {i \in 1..Len(invoice_collection) : invoice_collection[i].order_id = order_id}

\* A validation-succeeded event the environment fails no call of, whose user
\* is stored and owns the invoice address, with a vendor address document stored.
ValidEvent(l, users, vendors) ==
    /\ Handled(l, RouteValidationSucceeded, TopicValidationSucceeded)
    /\ \E i \in 1..Len(users) :
            /\ users[i]._id = l.data.order.user_id
            /\ Owns(users[i], l.data.order.invoice_address_id)
    /\ Len(vendors) > 0

\* C1: an envelope whose topic is not the literal of the handler it reached is
\* answered with the error status, and handling it changes none of the three
\* collections and publishes nothing.
C1_TopicMismatchRejected ==
    [][Mismatched(last') =>
            /\ last'.status \in {INTERNAL_SERVER_ERROR, UNPROCESSABLE_ENTITY}
            /\ UNCHANGED <<invoice_collection, vendor_address_collection,
                           user_collection, published>>]_vars

\* C1 witness: the validation route rejected a foreign topic on a store that
\* holds users and vendor addresses.
C1_Witness ==
    /\ Mismatched(last)
    /\ last.route = RouteValidationSucceeded
    /\ last.status = INTERNAL_SERVER_ERROR
    /\ Len(user_collection) > 0
    /\ Len(vendor_address_collection) > 0

\* C2 (as claimed): handling a valid validation-succeeded event, for a stored
\* user that owns the invoice address and with a vendor address stored, adds
\* exactly one invoice, and its order_id is the order id of the event.
C2_ValidEventPersistsOneInvoice ==
    [][ValidEvent(last', user_collection, vendor_address_collection) =>
            /\ Len(invoice_collection') = Len(invoice_collection) + 1
            /\ SubSeq(invoice_collection', 1, Len(invoice_collection)) = invoice_collection
            /\ invoice_collection'[Len(invoice_collection')].order_id
                    = last'.data.order.id]_vars

\* C3 (as claimed): when the identical valid validation-succeeded event was
\* delivered twice in a row, two invoices with its order id are stored.
C3_RedeliveryYieldsTwoInvoices ==
    (/\ ValidEvent(last, user_collection, vendor_address_collection)
     /\ last.redelivered)
        => Cardinality(InvoicesOf(last.data.order.id)) >= 2

\* C4 (as claimed): the vendor address collection never holds more than one
\* document.
C4_AtMostOneVendorAddress == Len(vendor_address_collection) <= 1

\* C5 (as claimed): after a vendor-address-created event was acknowledged, a
\* stored vendor address document carries the street, city, postal code,
\* country and company name of that event.
C5_StoredVendorAddressEqualsEvent ==
    (/\ Handled(last, RouteVendorAddressCreated, TopicVendorAddressCreated)
     /\ last.status = StatusOk)
        => \E i \in 1..Len(vendor_address_collection) :
                Project(vendor_address_collection[i], VendorAddressFields)
                    = VendorAddressFrom(last.data)

\* What C6 expects of a user document: the entries with the archived id are
\* gone from the addresses of the user the event names, all else is as before.
RECURSIVE WithoutId(_, _)
WithoutId(addresses, id) ==
    IF addresses = <<>> THEN <<>>
    ELSE IF Head(addresses)._id = id THEN WithoutId(Tail(addresses), id)
    ELSE <<Head(addresses)>> \o WithoutId(Tail(addresses), id)

Archived(doc, data) ==
    IF doc._id # data.user_id THEN doc
    ELSE [f \in DOMAIN doc |->
            IF f \in {"addresses", "user_addresses"}
            THEN WithoutId(doc[f], data.id) ELSE doc[f]]

\* C6 (as claimed): handling a user-address-archived event (A, U) removes
\* from U's addresses exactly the entries with id A and changes nothing else
\* of the user collection.
C6_ArchiveRemovesAddress ==
    [][Handled(last', RouteUserAddressArchived, TopicUserAddressArchived) =>
            /\ Len(user_collection') = Len(user_collection)
            /\ \A i \in 1..Len(user_collection) :
                    user_collection'[i] = Archived(user_collection[i], last'.data)]_vars

\* C7 (as claimed): a user-address-archived event whose address id is in no
\* address collection of the user it names leaves the store unchanged and is
\* acknowledged with status 0.
C7_ArchiveOfAbsentAddressAcknowledged ==
    [][(/\ Handled(last', RouteUserAddressArchived, TopicUserAddressArchived)
        /\ \A i \in 1..Len(user_collection) :
                user_collection[i]._id = last'.data.user_id
                    => ~Owns(user_collection[i], last'.data.id)) =>
            /\ last'.status = StatusOk
            /\ UNCHANGED <<invoice_collection, vendor_address_collection,
                           user_collection>>]_vars

\* C8: when the same user-address-created event was handled twice in a row
\* for a stored user, both deliveries were acknowledged and the user's
\* addresses end in two entries equal to the address of the event.
C8_PushTwiceDuplicates ==
    (/\ Handled(last, RouteUserAddressCreated, TopicUserAddressCreated)
     /\ last.redelivered)
        => \A i \in UsersWithId(last.data.user_id) :
                LET pushed == PushedAddresses(user_collection[i])
                IN  /\ last.status = StatusOk
                    /\ Len(pushed) >= 2
                    /\ pushed[Len(pushed)] = UserAddressFrom(last.data)
                    /\ pushed[Len(pushed) - 1] = UserAddressFrom(last.data)
                    /\ Cardinality(EntriesWithId(pushed, last.data.id)) >= 2

\* C8 witness: a stored user got the same address event twice.
C8_Witness ==
    /\ Handled(last, RouteUserAddressCreated, TopicUserAddressCreated)
    /\ last.redelivered
    /\ UsersWithId(last.data.user_id) # {}

\* C9 (as claimed): the ids of the addresses embedded in one user document are
\* pairwise distinct.
C9_AddressIdsUnique ==
    \A i \in 1..Len(user_collection) :
        \A k, m \in 1..Len(AddressCollection(user_collection[i])) :
            k # m => AddressCollection(user_collection[i])[k]._id
                        # AddressCollection(user_collection[i])[m]._id

\* C10 (as claimed): the same user-created event handled twice is acknowledged
\* both times and leaves two user documents with that id.
C10_UserInsertNotDeduplicated ==
    (/\ Handled(last, RouteUserCreated, TopicUserCreated)
     /\ last.redelivered)
        => /\ last.status = StatusOk
           /\ Cardinality(UsersWithId(last.data.id)) = 2

\* C10 (as amended): the ids of the stored users are pairwise distinct, and the
\* same user-created event handled a second time is answered with the error
\* status and leaves exactly one user document with that id.
C10_UserInsertRejectsDuplicate ==
    /\ \A i, j \in 1..Len(user_collection) :
            i # j => user_collection[i]._id # user_collection[j]._id
    /\ (/\ Handled(last, RouteUserCreated, TopicUserCreated)
        /\ last.redelivered)
            => /\ last.status = INTERNAL_SERVER_ERROR
               /\ Cardinality(UsersWithId(last.data.id)) = 1

\* C10 witness: a user-created event was delivered twice in a row.
C10_Witness ==
    /\ Handled(last, RouteUserCreated, TopicUserCreated)
    /\ last.redelivered
    /\ Cardinality(UsersWithId(last.data.id)) = 1

-----------------------------------------------------------------------------
(* Properties of the validation handler's insert, publish and reply.       *)

\* The last envelope reached the body of the validation handler: it decoded
\* and carried the handler's topic.
ValidationRan(l) ==
    /\ l.route = RouteValidationSucceeded
    /\ l.topic = TopicValidationSucceeded
    /\ l.undecoded = NoData

\* The step appended exactly one element to the sequence.
AppendedOne(before, after) ==
    /\ Len(after) = Len(before) + 1
    /\ SubSeq(after, 1, Len(before)) = before

\* C11: a step that hands a request to the publish endpoint has inserted, in
\* the same request and before, the invoice the published DTO was made from;
\* and a request whose insert the store fails publishes nothing and stores
\* nothing.
C11_PublishOnlyAfterInsert ==
    [][/\ published' # published =>
            /\ AppendedOne(published, published')
            /\ AppendedOne(invoice_collection, invoice_collection')
            /\ published'[Len(published')].body.invoice
                    = InvoiceDTOFrom(invoice_collection'[Len(invoice_collection')])
            /\ published'[Len(published')].body.order.id
                    = invoice_collection'[Len(invoice_collection')].order_id
       /\ (ValidationRan(last') /\ last'.fault = "insert") =>
            /\ published' = published
            /\ invoice_collection' = invoice_collection]_vars

\* C11 witness: an acknowledged validation request left its invoice stored and
\* its created-event with the publish endpoint.
C11_Witness ==
    /\ ValidationRan(last)
    /\ last.fault = "none"
    /\ Len(invoice_collection) = 1
    /\ Len(published) = 1
    /\ published[1].body.invoice = InvoiceDTOFrom(invoice_collection[1])

\* C12: when the publish call gets no response after the invoice was
\* inserted, the request is answered with the error status, the invoice it
\* inserted stays in the invoices collection, and the publish endpoint has
\* received nothing more.
C12_PublishFailureKeepsInvoice ==
    [][(ValidationRan(last') /\ last'.fault = "publish_no_response") =>
            /\ last'.status = INTERNAL_SERVER_ERROR
            /\ AppendedOne(invoice_collection, invoice_collection')
            /\ invoice_collection'[Len(invoice_collection')].order_id
                    = last'.data.order.id
            /\ published' = published]_vars

\* C12 witness: a request whose publish call got no response was answered
\* with the error status while its invoice is stored and nothing was published.
C12_Witness ==
    /\ ValidationRan(last)
    /\ last.fault = "publish_no_response"
    /\ last.status = INTERNAL_SERVER_ERROR
    /\ Len(invoice_collection) = 1
    /\ published = <<>>

\* One of the three lookups of the order fails on the store: the environment
\* fails it, or no user document holds an address with the invoice-address
\* id, or there is no vendor address document, or no user has the order's
\* user id.
LookupFails(order, fault, users, vendors) ==
    \/ fault \in LookupFaults
    \/ \A i \in 1..Len(users) : ~HasAddress(users[i], order.invoice_address_id)
    \/ Len(vendors) = 0
    \/ \A i \in 1..Len(users) : users[i]._id # order.user_id

\* C13: a validation request of which one of the three lookups fails is
\* answered with the error status, inserts no invoice, publishes nothing and
\* leaves the three collections as they were.
C13_LookupFailureAborts ==
    [][(/\ ValidationRan(last')
        /\ LookupFails(last'.data.order, last'.fault, user_collection,
                       vendor_address_collection)) =>
            /\ last'.status = INTERNAL_SERVER_ERROR
            /\ UNCHANGED <<invoice_collection, vendor_address_collection,
                           user_collection, published>>]_vars

\* C13 witness: with the order's user stored and no vendor address document,
\* a validation request that the environment failed no call of was answered
\* with the error status.
C13_Witness ==
    /\ ValidationRan(last)
    /\ last.fault = "none"
    /\ last.status = INTERNAL_SERVER_ERROR
    /\ UsersWithId(last.data.order.user_id) # {}
    /\ vendor_address_collection = <<>>
    /\ invoice_collection = <<>>
    /\ published = <<>>

\* C14: a validation request passes its stages in order and skips none: it
\* is acknowledged with status 0 only when it published, it publishes only
\* when it inserted its invoice, it inserts only when it decoded, carried the
\* handler's topic and no lookup failed, and it inserts and publishes at most
\* once; every other request is answered with an error status.
C14_StagesInOrder ==
    [][last'.route = RouteValidationSucceeded =>
            /\ last'.status = StatusOk =>
                    /\ AppendedOne(published, published')
                    /\ AppendedOne(invoice_collection, invoice_collection')
            /\ published' # published =>
                    /\ AppendedOne(published, published')
                    /\ AppendedOne(invoice_collection, invoice_collection')
                    /\ last'.fault \notin {"insert", "publish_no_response"}
            /\ invoice_collection' # invoice_collection =>
                    /\ AppendedOne(invoice_collection, invoice_collection')
                    /\ ValidationRan(last')
                    /\ last'.fault \notin LookupFaults \cup {"insert"}
            /\ last'.status # StatusOk =>
                    last'.status \in {INTERNAL_SERVER_ERROR, UNPROCESSABLE_ENTITY}]_vars

\* C14 witness: a validation request went through to the status 0 reply.
C14_Witness ==
    /\ ValidationRan(last)
    /\ last.status = StatusOk
    /\ Len(invoice_collection) = 1
    /\ Len(published) = 1

\* C15 (as claimed): every request that is not acknowledged is answered with
\* the one server-error status, whatever made it fail.
C15_AllFailuresSameStatus ==
    last.status # StatusOk => last.status = INTERNAL_SERVER_ERROR

\* C15 (as amended): a request that fails in the body of a handler (foreign
\* topic, failed lookup, failed insert, publish call without response) is
\* answered with the server-error status; a request whose body does not decode
\* is answered by the extractor with 422 and is thereby told apart.
C15_HandlerFailuresSameStatus ==
    /\ last.status \in {StatusOk, INTERNAL_SERVER_ERROR, UNPROCESSABLE_ENTITY}
    /\ last.status = UNPROCESSABLE_ENTITY <=> last.undecoded # NoData
    /\ (last.undecoded = NoData /\ (Mismatched(last) \/ last.fault \in
            LookupFaults \cup {"insert", "publish_no_response", "store"}))
        => last.status = INTERNAL_SERVER_ERROR

\* C15 witness: a validation request failed at the insert and was answered 500.
C15_Witness ==
    /\ ValidationRan(last)
    /\ last.fault = "insert"
    /\ last.status = INTERNAL_SERVER_ERROR

\* C16: a request whose body the extractor cannot decode is answered with an
\* error status and changes none of the three collections and publishes
\* nothing, on each of the five routes.
C16_UndecodableBodyHasNoEffect ==
    [][last'.undecoded # NoData =>
            /\ last'.status # StatusOk
            /\ last'.data = NoData
            /\ UNCHANGED <<invoice_collection, vendor_address_collection,
                           user_collection, published>>]_vars

\* C16 witness: the user-address route got a body without the owner's id
\* while users and vendor addresses were stored.
C16_Witness ==
    /\ last.undecoded \in UserAddressMalformed
    /\ last.route = RouteUserAddressCreated
    /\ last.topic = TopicUserAddressCreated
    /\ Len(user_collection) > 0
    /\ Len(vendor_address_collection) > 0

\* The keys a full order body has.
AllOrderKeys == {OrderKeys[f] : f \in DOMAIN OrderKeys}

\* C17 (as claimed): a validation body is rejected by the decoder only when
\* its order lacks a key other than vatNumber, rejectionReason,
\* paymentAuthorization and placedAt; an order that lacks only some of these
\* four decodes.
C17_DroppableKeysDecode ==
    (last.route = RouteValidationSucceeded /\ last.undecoded # NoData)
        => ~(AllOrderKeys \ DOMAIN last.undecoded.order \subseteq DroppableOrderKeys)

\* C18 (as claimed): an event of a subscribed topic, posted by the broker to
\* the route advertised for its topic, reaches the handler of that topic: the
\* advertised route is a registered POST route whose handler accepts exactly
\* the advertised topic.
C18_SubscriptionsMatchRoutes ==
    \A s \in list_topic_subscriptions :
        s.topic = last.topic =>
            /\ s.route \in DOMAIN build_dapr_router
            /\ build_dapr_router[s.route] = s.topic

\* C19: a stored invoice is never changed or removed: every document of the
\* invoices collection is, after every request of every route, at its place
\* with every field as it was inserted.
C19_InvoiceNeverMutated ==
    [][\A i \in DOMAIN invoice_collection :
            /\ i \in DOMAIN invoice_collection'
            /\ invoice_collection'[i] = invoice_collection[i]]_vars

\* C19 witness: a vendor-address event was acknowledged and stored while an
\* invoice was in the invoices collection.
C19_Witness ==
    /\ Len(invoice_collection) = 1
    /\ last.route = RouteVendorAddressCreated
    /\ last.topic = TopicVendorAddressCreated
    /\ last.status = StatusOk
    /\ vendor_address_collection # <<>>

\* C20: the body an acknowledged validation request hands to the publish
\* endpoint holds the order of the event as decoded and a DTO with the order
\* id, the issue time and the content of the invoice the request inserted,
\* and nothing else.
C20_PublishedBody ==
    [][(ValidationRan(last') /\ last'.status = StatusOk) =>
            /\ AppendedOne(published, published')
            /\ AppendedOne(invoice_collection, invoice_collection')
            /\ LET body == published'[Len(published')].body
                   invoice == invoice_collection'[Len(invoice_collection')]
               IN  /\ DOMAIN body = {"order", "invoice"}
                   /\ body.order = last'.data.order
                   /\ DOMAIN body.invoice = {"order_id", "issued_at", "content"}
                   /\ body.invoice.order_id = invoice.order_id
                   /\ body.invoice.issued_at = invoice.issued_at
                   /\ body.invoice.content = invoice.content]_vars

\* C20 witness: the publish endpoint holds the body of an acknowledged
\* validation request, with the request's order and a three-field DTO.
C20_Witness ==
    /\ ValidationRan(last)
    /\ last.status = StatusOk
    /\ Len(published) = 1
    /\ published[1].body.order = last.data.order
    /\ DOMAIN published[1].body.invoice = {"order_id", "issued_at", "content"}
    /\ "user_address" \in DOMAIN invoice_collection[1]

-----------------------------------------------------------------------------
(* Properties of the rendered invoice.                                     *)

\* The pieces of the content between "Purchased items overview:" and the
\* rule before the footer.
ItemTable(content) == SubSeq(content, 30, Len(content) - 3)

\* C21: the item table of the rendered invoice is the header, the separator
\* and then one row per item of the order, in the order of the items, each
\* row with the item's id, product variant id, count and compensatable
\* amount; an order without items has the header and the separator only.
C21_ItemTableRows ==
    synthesized # NoData =>
        LET items == synthesized.inputs.order_event_data.order_items
            table == ItemTable(synthesized.invoice.content)
        IN  /\ Len(table) = 2 + Len(items)
            /\ table[1] = "| Item UUID | Product variant UUID | count | Compensatable amount |"
            /\ table[2] = "| --- | --- | --- | --- |"
            /\ \A k \in 1..Len(items) :
                    table[2 + k] = <<items[k].id, items[k].product_variant_id,
                                    items[k].count, items[k].compensatable_amount>>

\* C21 witness: an invoice was rendered for an order of two items whose ids
\* are not in ascending order.
C21_Witness ==
    /\ synthesized # NoData
    /\ Len(synthesized.inputs.order_event_data.order_items) = 2
    /\ synthesized.inputs.order_event_data.order_items[1].id = "i2"
    /\ synthesized.inputs.order_event_data.order_items[2].id = "i1"
    /\ Len(ItemTable(synthesized.invoice.content)) = 4

\* C22: the footer of the rendered invoice is the order's
\* compensatable_order_amount, whatever the items of the order amount to.
C22_FooterIsOrderAmount ==
    synthesized # NoData =>
        /\ synthesized.invoice.content[Len(synthesized.invoice.content) - 1]
                = "Total compensatable amount:"
        /\ synthesized.invoice.content[Len(synthesized.invoice.content)]
                = synthesized.inputs.order_event_data.compensatable_order_amount

\* C22 witness: an invoice was rendered for an order whose total is not the
\* sum of the amounts of its items.
C22_Witness ==
    /\ synthesized # NoData
    /\ synthesized.inputs.order_event_data.order_items # <<>>
    /\ SumOfAmounts(synthesized.inputs.order_event_data.order_items)
            # synthesized.inputs.order_event_data.compensatable_order_amount
    /\ synthesized.invoice.content[Len(synthesized.invoice.content)]
            = synthesized.inputs.order_event_data.compensatable_order_amount

\* C23: the VAT line of the rendered invoice shows the order's VAT number,
\* or "-" when the order has none, and the invoice's vat_number is the
\* order's optional VAT number itself.
C23_VatLine ==
    synthesized # NoData =>
        /\ synthesized.invoice.content[8] = "VAT number:"
        /\ synthesized.invoice.content[9]
                = (IF synthesized.inputs.order_event_data.vat_number = None THEN "-"
                   ELSE synthesized.inputs.order_event_data.vat_number)
        /\ synthesized.invoice.vat_number = synthesized.inputs.order_event_data.vat_number

\* C23 witness: an invoice was rendered for an order without VAT number.
C23_Witness ==
    /\ synthesized # NoData
    /\ synthesized.inputs.order_event_data.vat_number = None
    /\ synthesized.invoice.content[9] = "-"
    /\ synthesized.invoice.vat_number = None

C30_AuthorizationNotConsulted ==
    [][(synthesized' # NoData /\ synthesized'.differs = "payment_authorization") =>
            /\ synthesized'.invoice = synthesized.invoice
            /\ InvoiceDTOFrom(synthesized'.invoice)
                    = InvoiceDTOFrom(synthesized.invoice)]_vars

\* C30 witness: Invoice::new ran on an order with a CVC authorization after a
\* run that differed in the payment authorization only.
C30_Witness ==
    /\ synthesized # NoData
    /\ synthesized.differs = "payment_authorization"
    /\ synthesized.inputs.order_event_data.payment_authorization # None

-----------------------------------------------------------------------------
(* Properties of the lookups and of the store handlers.                    *)

\* C24 (as claimed): a valid validation-succeeded event whose user holds
\* several addresses, the invoice address not the first of them, stores an
\* invoice whose embedded user address is the one with the invoice address id.
C24_MatchingAddressEmbedded ==
    [][(/\ ValidEvent(last', user_collection, vendor_address_collection)
        /\ \E i \in UsersWithId(last'.data.order.user_id) :
                /\ Len(AddressCollection(user_collection[i])) >= 2
                /\ AddressCollection(user_collection[i])[1]._id
                        # last'.data.order.invoice_address_id) =>
            /\ AppendedOne(invoice_collection, invoice_collection')
            /\ invoice_collection'[Len(invoice_collection')].user_address._id
                    = last'.data.order.invoice_address_id]_vars

\* C25 (as claimed): once a vendor-address-created event was handled, the
\* vendor address the pipeline's lookup returns is the content of that event,
\* the most recent one.
C25_LookupReturnsLatestVendorAddress ==
    (/\ Handled(last, RouteVendorAddressCreated, TopicVendorAddressCreated)
     /\ last.status = StatusOk) =>
        query_vendor_address(vendor_address_collection, TRUE)
            = Ok(VendorAddressFrom(last.data))

\* C26 (as claimed): when the archive events of two different addresses of
\* one user were both acknowledged, in either order of their store
\* operations, the user holds neither of the two addresses.
C26_BothArchivedAddressesRemoved ==
    [][(/\ Handled(last, RouteUserAddressArchived, TopicUserAddressArchived)
        /\ Handled(last', RouteUserAddressArchived, TopicUserAddressArchived)
        /\ last.status = StatusOk
        /\ last'.status = StatusOk
        /\ last.data.user_id = last'.data.user_id
        /\ last.data.id # last'.data.id) =>
            \A i \in UsersWithId(last'.data.user_id) :
                /\ ~Owns(user_collection'[i], last.data.id)
                /\ ~Owns(user_collection'[i], last'.data.id)]_vars

\* The documents of a collection a step wrote: those added and those changed.
Written(before, after) ==
    {i \in DOMAIN after : i \notin DOMAIN before \/ after[i] # before[i]}

\* C27: handling one delivery inserts at most one invoice and hands at most
\* one request to the publish endpoint, and writes at most one document of
\* the vendor address collection or of the user collection, to which it adds
\* at most one embedded address; no delivery removes a document.
C27_NoStageRetried ==
    [][/\ Len(invoice_collection') \in {Len(invoice_collection), Len(invoice_collection) + 1}
       /\ Len(published') \in {Len(published), Len(published) + 1}
       /\ Cardinality(Written(invoice_collection, invoice_collection')) <= 1
       /\ Cardinality(Written(vendor_address_collection, vendor_address_collection')
                      \cup Written(user_collection, user_collection')) <= 1
       /\ Len(vendor_address_collection') >= Len(vendor_address_collection)
       /\ Len(user_collection') >= Len(user_collection)
       /\ EmbeddedAddresses(user_collection') <= EmbeddedAddresses(user_collection) + 1
       /\ (last'.route # RouteValidationSucceeded =>
                invoice_collection' = invoice_collection /\ published' = published)]_vars

\* C27 witness: a validation-succeeded delivery was acknowledged after one
\* insert and one publish call, the vendor address collection written before.
C27_Witness ==
    /\ ValidationRan(last)
    /\ ~last.redelivered
    /\ last.status = StatusOk
    /\ Len(invoice_collection) = 1
    /\ Len(published) = 1
    /\ Len(vendor_address_collection) = 1

\* C28: every stored user document stays at its place with its _id,
\* first_name, last_name and every other field but the array the address
\* events write to, and gets no other field; a user document a request adds
\* holds no address.
C28_UserFieldsFixed ==
    [][/\ \A i \in DOMAIN user_collection :
            /\ i \in DOMAIN user_collection'
            /\ \A f \in DOMAIN user_collection[i] \ {"user_addresses"} :
                    /\ f \in DOMAIN user_collection'[i]
                    /\ user_collection'[i][f] = user_collection[i][f]
            /\ (DOMAIN user_collection'[i]) \ (DOMAIN user_collection[i])
                    \subseteq {"user_addresses"}
       /\ \A i \in (DOMAIN user_collection') \ (DOMAIN user_collection) :
            AddressCollection(user_collection'[i]) = <<>>]_vars

\* C28 witness: an address event was acknowledged for a stored user, who
\* holds the address and has the names of the creation event.
C28_Witness ==
    /\ Handled(last, RouteUserAddressCreated, TopicUserAddressCreated)
    /\ last.status = StatusOk
    /\ \E i \in UsersWithId(last.data.user_id) :
            /\ Owns(user_collection[i], last.data.id)
            /\ user_collection[i].first_name = "Ann"
            /\ user_collection[i].last_name = "Lee"

-----------------------------------------------------------------------------
(* Properties of the pipeline on the store the handlers build.             *)

\* The user document i holds an address with this id in the array the
\* address events write to.
Pushed(doc, address_id) ==
    \E k \in 1..Len(PushedAddresses(doc)) : PushedAddresses(doc)[k]._id = address_id

\* C31 (as claimed): with a vendor address document stored, a validation
\* event for a stored user U and an address A that a user-address-created
\* event added to U passes the owning-address lookup and stores an invoice
\* that embeds A.
C31_PushedAddressVisible ==
    [][(/\ Handled(last', RouteValidationSucceeded, TopicValidationSucceeded)
        /\ \E i \in UsersWithId(last'.data.order.user_id) :
                Pushed(user_collection[i], last'.data.order.invoice_address_id)
        /\ Len(vendor_address_collection) > 0) =>
            /\ query_user_address_user(user_collection,
                                       last'.data.order.invoice_address_id, TRUE).ok
            /\ AppendedOne(invoice_collection, invoice_collection')
            /\ invoice_collection'[Len(invoice_collection')].user_address._id
                    = last'.data.order.invoice_address_id]_vars

\* The owning-address lookup of the pipeline finds the address.
OwnedForInvoicing(users, address_id) ==
    query_user_address_user(users, address_id, TRUE).ok

C34_AddressOfUnknownUserDropped ==
    [][/\ (/\ Handled(last', RouteUserAddressCreated, TopicUserAddressCreated)
           /\ UsersWithId(last'.data.user_id) = {}) =>
                /\ last'.status = StatusOk
                /\ UNCHANGED <<user_collection, vendor_address_collection,
                               invoice_collection, published>>
       /\ (/\ Handled(last', RouteUserCreated, TopicUserCreated)
           /\ last'.status = StatusOk) =>
                /\ Len(user_collection') = Len(user_collection) + 1
                /\ user_collection'[Len(user_collection')]._id = last'.data.id
                /\ AddressCollection(user_collection'[Len(user_collection')]) = <<>>]_vars

\* C34 witness: an address event was acknowledged while no user with its
\* user id is stored, another user being stored.
C34_Witness ==
    /\ Handled(last, RouteUserAddressCreated, TopicUserAddressCreated)
    /\ last.status = StatusOk
    /\ UsersWithId(last.data.user_id) = {}
    /\ Len(user_collection) = 1
    /\ AddressCollection(user_collection[1]) = <<>>

\* C35 (as claimed): with the order's user and a vendor address document
\* stored, a validation event whose invoice address was added to another
\* user stores an invoice that embeds the address of that other user.
C35_ForeignAddressInvoiced ==
    [][(/\ Handled(last', RouteValidationSucceeded, TopicValidationSucceeded)
        /\ UsersWithId(last'.data.order.user_id) # {}
        /\ \E j \in DOMAIN user_collection :
                /\ user_collection[j]._id # last'.data.order.user_id
                /\ Owns(user_collection[j], last'.data.order.invoice_address_id)
        /\ Len(vendor_address_collection) > 0) =>
            /\ last'.status = StatusOk
            /\ AppendedOne(invoice_collection, invoice_collection')
            /\ invoice_collection'[Len(invoice_collection')].user_address.user_id
                    # last'.data.order.user_id]_vars

\* C37: a request on the vendor address route changes no collection but the
\* vendor address collection, a request on one of the three user routes none
\* but the user collection, and a request on the validation route none but
\* the invoices collection; only a validation request publishes.
C37_HandlersWriteOwnCollection ==
    [][/\ last'.route = RouteVendorAddressCreated =>
            UNCHANGED <<invoice_collection, user_collection, published>>
       /\ last'.route \in {RouteUserCreated, RouteUserAddressCreated,
                           RouteUserAddressArchived} =>
            UNCHANGED <<invoice_collection, vendor_address_collection, published>>
       /\ last'.route = RouteValidationSucceeded =>
            UNCHANGED <<user_collection, vendor_address_collection>>]_vars

\* C37 witness: a user-address-created event changed the user collection
\* while vendor address documents are stored.
C37_Witness ==
    /\ Handled(last, RouteUserAddressCreated, TopicUserAddressCreated)
    /\ last.status = StatusOk
    /\ Len(vendor_address_collection) = 2
    /\ \E i \in UsersWithId(last.data.user_id) : Pushed(user_collection[i], last.data.id)

\* C39: a validation request whose publish call is answered with an error
\* status is acknowledged with status 0 like one whose call is accepted, its
\* invoice stored and its created-event with the publish endpoint; only a
\* call without response makes the request fail.
C39_ErrorStatusCountsAsPublished ==
    [][/\ (/\ ValidationRan(last')
           /\ last'.fault = "publish_error_status") =>
                /\ last'.status = StatusOk
                /\ AppendedOne(invoice_collection, invoice_collection')
                /\ AppendedOne(published, published')
                /\ ~published'[Len(published')].accepted
       /\ (/\ ValidationRan(last')
           /\ invoice_collection' # invoice_collection
           /\ last'.status # StatusOk) => last'.fault = "publish_no_response"]_vars

\* C39 witness: a request whose publish call the endpoint answered with an
\* error status was acknowledged.
C39_Witness ==
    /\ ValidationRan(last)
    /\ last.fault = "publish_error_status"
    /\ last.status = StatusOk
    /\ Len(published) = 1
    /\ ~published[1].accepted

-----------------------------------------------------------------------------
(* Properties of the request between its awaits.                           *)

\* The calls a request has awaited are the first ones of the order of the
\* code, and the request waits for the next one.
InOrder(req) ==
    /\ Len(req.issued) < Len(StageOrder)
    /\ req.issued = SubSeq(StageOrder, 1, Len(req.issued))
    /\ req.stage = StageOrder[Len(req.issued) + 1]

\* C33: the calls of a request are awaited one at a time in the order
\* owning-address lookup, vendor-address lookup, user lookup (then insert and
\* publish): a request holds the result of a lookup only with the results of
\* the lookups before it, and a lookup that fails ends the request with the
\* error status before any later call.
C33_LookupsInSequence ==
    [][/\ request' # NoData =>
            /\ InOrder(request')
            /\ request'.vendor_address # NoData => request'.user_address # NoData
            /\ request'.user # NoData => request'.vendor_address # NoData
            /\ (request'.user_address # NoData) = (Len(request'.issued) >= 1)
            /\ (request'.vendor_address # NoData) = (Len(request'.issued) >= 2)
            /\ (request'.user # NoData) = (Len(request'.issued) >= 3)
       /\ (request # NoData /\ request' # NoData) =>
            \/ request'.issued = request.issued
            \/ request'.issued = Append(request.issued, request.stage)
       /\ (request # NoData /\ request' = NoData /\ request.stage \in LookupFaults) =>
            /\ last'.fault = request.stage
            /\ last'.status = INTERNAL_SERVER_ERROR
            /\ UNCHANGED <<invoice_collection, published>>]_vars

\* C33 witness: a request has awaited its three lookups, in order, and waits
\* for the insert.
C33_Witness ==
    /\ request # NoData
    /\ request.issued = <<"find_address", "find_vendor", "find_user">>
    /\ request.stage = "insert"
    /\ request.user # NoData

C38_RequestEnds ==
    (request # NoData)
        ~> (/\ request = NoData
            /\ last.route = RouteValidationSucceeded
            /\ last.status \in {StatusOk, INTERNAL_SERVER_ERROR})

\* C38 witness: a request is between its lookups while another handler ran.
C38_Witness ==
    /\ request # NoData
    /\ request.stage = "find_user"
    /\ request.overlapped
    /\ last.route # RouteValidationSucceeded

====
